---- MODULE Spec2Model ----
(***************************************************************************)
(* Codein: a minimal ncurses screen editor (src/main.c).                   *)
(*                                                                         *)
(* The editor is one command loop over process-wide state: the line        *)
(* buffer, the cursor, the first visible line, the undo and redo stacks    *)
(* and the search query.  Every key runs its handler and then              *)
(* draw_screen(); one action of this module is one turn of that loop.      *)
(*                                                                         *)
(* Rows and columns are zero-based as in the source; TLA+ sequences are    *)
(* one-based, so the line at row y is lines[y + 1].  A line is a sequence  *)
(* of characters without its terminating zero byte.                       *)
(*                                                                         *)
(* MAX_LINES, MAX_COL and UNDO_DEPTH are the program's constants scaled    *)
(* down (10000, 4096 and 32 in the source) so that the limits are reached  *)
(* within the explored runs; every comparison against them is the          *)
(* source's.                                                               *)
(***************************************************************************)
EXTENDS Integers, Sequences, FiniteSets, TLC

MAX_LINES == 3

MAX_COL == 4

UNDO_DEPTH == 2

\* Number of commands explored from the initial state.
MaxSteps == 4

\* How far past the end of a line buffer an out-of-bounds scan may report
\* a match (see strstr_at).
MaxGarbage == 1

Chars == {"a", "b"}

\* Terminal sizes getmaxyx() may report.  A terminal has at least one text
\* row above the status line.
Rows == {2, 3}

Cols == {2, 5}

\* What the user may type at the "Search: " prompt before Enter.
Queries == {<<>>, <<"a">>, <<"b">>, <<"a", "b">>}

\* The documents load_file() may leave in the buffer: a single empty line
\* (no file, unreadable file or empty file) or the file's lines.
InitDocs ==
    { << <<>> >>,
      << <<"a", "b">> >>,
      << <<"a">>, <<>>, <<"b", "a">> >>,
      << <<"a", "b", "a">>, <<"b">> >> }

VARIABLES
    lines,          \* lines[0 .. num_lines-1]
    pad,            \* pad[y+1]: the buffer of row y holds a zero byte after its terminator
    cur_x,          \* column index
    cur_y,          \* line index
    top_line,       \* first visible line
    undo_stack,     \* undo_stack[0 .. undo_count-1]
    redo_stack,     \* redo_stack[0 .. redo_count-1]
    search_query,
    rows,           \* terminal size, as getmaxyx() reports it
    cols,
    beeped,         \* the last command called beep()
    captures,       \* number of snapshots push_undo() has pushed, counted up to UNDO_DEPTH + 1
    evicted,        \* number of oldest snapshots the last command dropped from a full stack
    cleared,        \* number of redo snapshots push_undo() freed in the last command
    scan_from,      \* offset at which the last search began on the cursor's row, -1 if none
    painted_top,    \* the top line the last draw_screen() painted its rows from
    loaded,         \* the document load_file() produced
    last,           \* the last command
    steps,          \* number of commands so far
    recording,      \* whether live_hist is kept
    live_hist       \* the (document, cursor, viewport) states that were live before a command

vars == << lines, pad, cur_x, cur_y, top_line, undo_stack, redo_stack,
           search_query, rows, cols, beeped, captures, evicted, cleared,
           scan_from, painted_top, loaded, last, steps, recording,
           live_hist >>

----------------------------------------------------------------------------
(* Helpers *)

Min(S) == CHOOSE x \in S : \A y \in S : x <= y

strlen(line) == Len(line)

NoPad(n) == [i \in 1..n |-> FALSE]

\* The editor's state as one record, the form the handlers work on.
\* malloc_ok says whether the malloc() of push_undo() succeeds in the
\* command at hand.
Live ==
    [ lines |-> lines, pad |-> pad, cur_x |-> cur_x, cur_y |-> cur_y,
      top_line |-> top_line, undo_stack |-> undo_stack,
      redo_stack |-> redo_stack, search_query |-> search_query,
      beeped |-> beeped, captures |-> captures, evicted |-> evicted,
      cleared |-> cleared, scan_from |-> scan_from,
      painted_top |-> painted_top, malloc_ok |-> TRUE ]

num_lines(s) == Len(s.lines)

undo_count(s) == Len(s.undo_stack)

redo_count(s) == Len(s.redo_stack)

\* lines[y] of the source
LineAt(s, y) == s.lines[y + 1]

\* An UndoSnapshot: deep copy of the lines, cursor and top line.
UndoSnapshot(s) ==
    [ lines |-> s.lines, cur_x |-> s.cur_x, cur_y |-> s.cur_y,
      top_line |-> s.top_line ]

beep(s) == [s EXCEPT !.beeped = TRUE]

----------------------------------------------------------------------------
(* History *)

\* drop_oldest shifting the wrong way: the newest snapshot is lost
drop_newest(stack) == SubSeq(stack, 1, Len(stack) - 1)

\* free_snapshot(&stack[0]) and the memmove that closes the gap
drop_oldest(stack) == Tail(stack)

\* push_undo without the loop that clears the redo stack
push_undo_keep_redo(s) ==
    LET kept == IF undo_count(s) = UNDO_DEPTH
                THEN drop_oldest(s.undo_stack)
                ELSE s.undo_stack
    IN  [s EXCEPT !.undo_stack = Append(kept, UndoSnapshot(s)),
                  !.captures = IF @ > UNDO_DEPTH THEN @ ELSE @ + 1,
                  !.evicted = IF undo_count(s) = UNDO_DEPTH THEN @ + 1 ELSE @]

\* A failed malloc() returns after the oldest snapshot of a full stack has
\* been dropped: nothing is pushed and the redo stack is left as it is.
push_undo(s) ==
    LET kept == IF undo_count(s) = UNDO_DEPTH
                THEN drop_oldest(s.undo_stack)
                ELSE s.undo_stack
    IN  IF ~s.malloc_ok
        THEN [s EXCEPT !.undo_stack = kept,
                       !.evicted = IF undo_count(s) = UNDO_DEPTH
                                   THEN @ + 1 ELSE @]
        ELSE [s EXCEPT !.undo_stack = Append(kept, UndoSnapshot(s)),
                       !.redo_stack = << >>,
                       !.captures = IF @ > UNDO_DEPTH THEN @ ELSE @ + 1,
                       !.evicted = IF undo_count(s) = UNDO_DEPTH
                                   THEN @ + 1 ELSE @,
                       !.cleared = @ + redo_count(s)]

\* The live buffer takes over the snapshot's lines (strdup copies: no slack).
restore(s, snap) ==
    [s EXCEPT !.lines = snap.lines,
              !.pad = NoPad(Len(snap.lines)),
              !.cur_x = snap.cur_x,
              !.cur_y = snap.cur_y,
              !.top_line = snap.top_line]

\* Save the live state on top of `stack`, dropping the oldest when full.
save_current(stack, s) ==
    IF Len(stack) < UNDO_DEPTH
    THEN Append(stack, UndoSnapshot(s))
    ELSE Append(drop_oldest(stack), UndoSnapshot(s))

\* do_undo that takes the lines and the top line from the snapshot but
\* leaves the cursor where it is
do_undo_keep_cursor(s) ==
    IF undo_count(s) = 0
    THEN beep(s)
    ELSE LET snap == s.undo_stack[undo_count(s)]
             r == [s EXCEPT !.redo_stack = save_current(s.redo_stack, s)]
         IN  [r EXCEPT
                 !.lines = snap.lines,
                 !.pad = NoPad(Len(snap.lines)),
                 !.top_line = snap.top_line,
                 !.undo_stack = SubSeq(s.undo_stack, 1, undo_count(s) - 1)]

\* do_undo without the beep on an empty stack
do_undo_silent(s) ==
    IF undo_count(s) = 0
    THEN s
    ELSE LET snap == s.undo_stack[undo_count(s)]
             r == [s EXCEPT !.redo_stack = save_current(s.redo_stack, s)]
         IN  [restore(r, snap) EXCEPT
                 !.undo_stack = SubSeq(s.undo_stack, 1, undo_count(s) - 1)]

do_undo(s) ==
    IF undo_count(s) = 0
    THEN beep(s)
    ELSE LET snap == s.undo_stack[undo_count(s)]
             r == [s EXCEPT !.redo_stack = save_current(s.redo_stack, s),
                            !.evicted = IF redo_count(s) < UNDO_DEPTH
                                        THEN @ ELSE @ + 1]
         IN  [restore(r, snap) EXCEPT
                 !.undo_stack = SubSeq(s.undo_stack, 1, undo_count(s) - 1)]

\* do_redo without its final redo_count--
do_redo_no_pop(s) ==
    IF redo_count(s) = 0
    THEN beep(s)
    ELSE LET snap == s.redo_stack[redo_count(s)]
             u == [s EXCEPT !.undo_stack = save_current(s.undo_stack, s)]
         IN  restore(u, snap)

do_redo(s) ==
    IF redo_count(s) = 0
    THEN beep(s)
    ELSE LET snap == s.redo_stack[redo_count(s)]
             u == [s EXCEPT !.undo_stack = save_current(s.undo_stack, s),
                            !.evicted = IF undo_count(s) < UNDO_DEPTH
                                        THEN @ ELSE @ + 1]
         IN  [restore(u, snap) EXCEPT
                 !.redo_stack = SubSeq(s.redo_stack, 1, redo_count(s) - 1)]

----------------------------------------------------------------------------
(* Search *)

\* strstr(line + from, query) for from <= strlen(line): the offset of the
\* first occurrence at or after `from`, or -1 for NULL.
strstr(line, from, query) ==
    LET hits == { i \in from..(Len(line) - Len(query)) :
                    SubSeq(line, i + 1, i + Len(query)) = query }
    IN  IF hits = {} THEN -1 ELSE Min(hits)

\* strstr(lines[y] + from, query) as search_forward calls it.  With
\* from = strlen + 1 the scan starts behind the terminator: on the zero
\* byte an in-place backspace left there (no match), or outside the buffer,
\* where what it finds is `g`: nothing (g < 0) or a match g bytes further on.
strstr_at(s, y, from, g) ==
    LET line == LineAt(s, y)
    IN  IF from <= strlen(line) THEN strstr(line, from, s.search_query)
        ELSE IF s.pad[y + 1] THEN -1
        ELSE IF g < 0 THEN -1
        ELSE from + g

search_forward(s, g) ==
    IF s.search_query = << >>
    THEN beep(s)
    ELSE LET start_y == s.cur_y
             start_x == s.cur_x + 1
             hit(y) == strstr_at(s, y, IF y = start_y THEN start_x ELSE 0, g)
             fwd == { y \in start_y..(num_lines(s) - 1) : hit(y) >= 0 }
             wrap == { y \in 0..(start_y - 1) :
                         strstr(LineAt(s, y), 0, s.search_query) >= 0 }
             t == [s EXCEPT !.scan_from = start_x]
         IN  IF fwd # {}
             THEN [t EXCEPT !.cur_y = Min(fwd), !.cur_x = hit(Min(fwd))]
             ELSE IF wrap # {}
             THEN [t EXCEPT !.cur_y = Min(wrap),
                            !.cur_x = strstr(LineAt(s, Min(wrap)), 0,
                                             s.search_query)]
             ELSE beep(t)

\* Enter at the "Search: " prompt with `buf` typed.
prompt_search(s, buf, g) ==
    search_forward([s EXCEPT !.search_query = buf], g)

----------------------------------------------------------------------------
(* Screen *)

\* draw_screen that scrolls down one line too far (cur_y - visible + 2)
draw_screen_past_cursor(s, r) ==
    LET visible == r - 1
        x == IF s.cur_x < 0 THEN 0 ELSE s.cur_x
        y0 == IF s.cur_y < 0 THEN 0 ELSE s.cur_y
        y == IF y0 >= num_lines(s) THEN num_lines(s) - 1 ELSE y0
        disp_y == y - s.top_line
        top == IF disp_y < 0 THEN y
               ELSE IF disp_y >= visible THEN y - visible + 2
               ELSE s.top_line
    IN  [s EXCEPT !.cur_x = x, !.cur_y = y, !.top_line = top,
                  !.painted_top = s.top_line]

\* The part of draw_screen() that writes editor state: the cursor row is
\* brought into the document and the top line follows the cursor.  The rows
\* are painted first, from the top line draw_screen() was entered with.
draw_screen(s, r) ==
    LET visible == r - 1
        x == IF s.cur_x < 0 THEN 0 ELSE s.cur_x
        y0 == IF s.cur_y < 0 THEN 0 ELSE s.cur_y
        y == IF y0 >= num_lines(s) THEN num_lines(s) - 1 ELSE y0
        disp_y == y - s.top_line
        top == IF disp_y < 0 THEN y
               ELSE IF disp_y >= visible THEN y - visible + 1
               ELSE s.top_line
    IN  [s EXCEPT !.cur_x = x, !.cur_y = y, !.top_line = top,
                  !.painted_top = s.top_line]

----------------------------------------------------------------------------
(* Edit operations *)

\* newline that records the undo snapshot after it has split the line
newline_capture_late(s) ==
    LET n == num_lines(s)
        ln == LineAt(s, s.cur_y)
        left == SubSeq(ln, 1, s.cur_x)
        right == SubSeq(ln, s.cur_x + 1, Len(ln))
    IN  IF n + 1 >= MAX_LINES THEN push_undo(s)
        ELSE push_undo(
               [s EXCEPT
                  !.lines = SubSeq(s.lines, 1, s.cur_y) \o << left, right >>
                            \o SubSeq(s.lines, s.cur_y + 2, n),
                  !.pad = SubSeq(s.pad, 1, s.cur_y) \o << FALSE, FALSE >>
                          \o SubSeq(s.pad, s.cur_y + 2, n),
                  !.cur_y = s.cur_y + 1,
                  !.cur_x = 0])

\* newline that puts the tail of the split line before its head
newline_swapped(s) ==
    LET u == push_undo(s)
        n == num_lines(u)
        ln == LineAt(u, u.cur_y)
        left == SubSeq(ln, 1, u.cur_x)
        right == SubSeq(ln, u.cur_x + 1, Len(ln))
    IN  IF n + 1 >= MAX_LINES THEN u
        ELSE [u EXCEPT
                !.lines = SubSeq(u.lines, 1, u.cur_y) \o << right, left >>
                          \o SubSeq(u.lines, u.cur_y + 2, n),
                !.pad = SubSeq(u.pad, 1, u.cur_y) \o << FALSE, FALSE >>
                        \o SubSeq(u.pad, u.cur_y + 2, n),
                !.cur_y = u.cur_y + 1,
                !.cur_x = 0]

newline(s) ==
    LET u == push_undo(s)
        n == num_lines(u)
        ln == LineAt(u, u.cur_y)
        left == SubSeq(ln, 1, u.cur_x)
        right == SubSeq(ln, u.cur_x + 1, Len(ln))
    IN  IF n + 1 >= MAX_LINES THEN u
        ELSE [u EXCEPT
                !.lines = SubSeq(u.lines, 1, u.cur_y) \o << left, right >>
                          \o SubSeq(u.lines, u.cur_y + 2, n),
                !.pad = SubSeq(u.pad, 1, u.cur_y) \o << FALSE, FALSE >>
                        \o SubSeq(u.pad, u.cur_y + 2, n),
                !.cur_y = u.cur_y + 1,
                !.cur_x = 0]

\* insert_char without the line length check
insert_char_unchecked(s, c, co) ==
    LET u == push_undo(s)
        ln == LineAt(u, u.cur_y)
        len == strlen(ln)
    IN  IF u.cur_x >= co - 1 THEN newline(u)
        ELSE [u EXCEPT
                !.lines[u.cur_y + 1] = SubSeq(ln, 1, u.cur_x) \o << c >>
                                       \o SubSeq(ln, u.cur_x + 1, len),
                !.pad[u.cur_y + 1] = FALSE,
                !.cur_x = u.cur_x + 1]

\* insert_char that wraps one column late (cur_x >= cols)
insert_char_wrap_late(s, c, co) ==
    LET u == push_undo(s)
        ln == LineAt(u, u.cur_y)
        len == strlen(ln)
    IN  IF u.cur_x >= co THEN newline(u)
        ELSE IF len + 2 >= MAX_COL THEN u
        ELSE [u EXCEPT
                !.lines[u.cur_y + 1] = SubSeq(ln, 1, u.cur_x) \o << c >>
                                       \o SubSeq(ln, u.cur_x + 1, len),
                !.pad[u.cur_y + 1] = FALSE,
                !.cur_x = u.cur_x + 1]

insert_char(s, c, co) ==
    LET u == push_undo(s)
        ln == LineAt(u, u.cur_y)
        len == strlen(ln)
    IN  IF u.cur_x >= co - 1 THEN newline(u)
        ELSE IF len + 2 >= MAX_COL THEN u
        ELSE [u EXCEPT
                !.lines[u.cur_y + 1] = SubSeq(ln, 1, u.cur_x) \o << c >>
                                       \o SubSeq(ln, u.cur_x + 1, len),
                !.pad[u.cur_y + 1] = FALSE,
                !.cur_x = u.cur_x + 1]

\* backspace whose merge leaves the cursor at column 0
backspace_cursor_home(s) ==
    LET u == push_undo(s)
        n == num_lines(u)
        ln == LineAt(u, u.cur_y)
    IN  IF u.cur_x > 0
        THEN [u EXCEPT
                !.lines[u.cur_y + 1] = SubSeq(ln, 1, u.cur_x - 1)
                                       \o SubSeq(ln, u.cur_x + 1, Len(ln)),
                !.pad[u.cur_y + 1] = TRUE,
                !.cur_x = u.cur_x - 1]
        ELSE IF u.cur_y > 0
        THEN LET prev == LineAt(u, u.cur_y - 1)
                 prev_len == strlen(prev)
                 cur_len == strlen(ln)
             IN  IF prev_len + cur_len + 1 >= MAX_COL THEN u
                 ELSE [u EXCEPT
                         !.lines = SubSeq(u.lines, 1, u.cur_y - 1)
                                   \o << prev \o ln >>
                                   \o SubSeq(u.lines, u.cur_y + 2, n),
                         !.pad = SubSeq(u.pad, 1, u.cur_y - 1) \o << FALSE >>
                                 \o SubSeq(u.pad, u.cur_y + 2, n),
                         !.cur_y = u.cur_y - 1,
                         !.cur_x = 0]
        ELSE u

backspace(s) ==
    LET u == push_undo(s)
        n == num_lines(u)
        ln == LineAt(u, u.cur_y)
    IN  IF u.cur_x > 0
        THEN [u EXCEPT
                !.lines[u.cur_y + 1] = SubSeq(ln, 1, u.cur_x - 1)
                                       \o SubSeq(ln, u.cur_x + 1, Len(ln)),
                !.pad[u.cur_y + 1] = TRUE,
                !.cur_x = u.cur_x - 1]
        ELSE IF u.cur_y > 0
        THEN LET prev == LineAt(u, u.cur_y - 1)
                 prev_len == strlen(prev)
                 cur_len == strlen(ln)
             IN  IF prev_len + cur_len + 1 >= MAX_COL THEN u
                 ELSE [u EXCEPT
                         !.lines = SubSeq(u.lines, 1, u.cur_y - 1)
                                   \o << prev \o ln >>
                                   \o SubSeq(u.lines, u.cur_y + 2, n),
                         !.pad = SubSeq(u.pad, 1, u.cur_y - 1) \o << FALSE >>
                                 \o SubSeq(u.pad, u.cur_y + 2, n),
                         !.cur_y = u.cur_y - 1,
                         !.cur_x = prev_len]
        ELSE u

----------------------------------------------------------------------------
(* Navigation *)

\* if (cur_x > l) cur_x = l, for the line the cursor is on
clamp_x(s) ==
    LET l == strlen(LineAt(s, s.cur_y))
    IN  IF s.cur_x > l THEN [s EXCEPT !.cur_x = l] ELSE s

key_up(s) ==
    IF s.cur_y > 0 THEN clamp_x([s EXCEPT !.cur_y = @ - 1]) ELSE s

key_down(s) ==
    IF s.cur_y < num_lines(s) - 1 THEN clamp_x([s EXCEPT !.cur_y = @ + 1])
    ELSE s

key_left(s) ==
    IF s.cur_x > 0 THEN [s EXCEPT !.cur_x = @ - 1]
    ELSE IF s.cur_y > 0
    THEN [s EXCEPT !.cur_y = @ - 1,
                   !.cur_x = strlen(LineAt(s, s.cur_y - 1))]
    ELSE s

key_right(s) ==
    LET l == strlen(LineAt(s, s.cur_y))
    IN  IF s.cur_x < l THEN [s EXCEPT !.cur_x = @ + 1]
        ELSE IF s.cur_y < num_lines(s) - 1
        THEN [s EXCEPT !.cur_y = @ + 1, !.cur_x = 0]
        ELSE s

page_up(s, r) ==
    LET visible == IF r - 1 <= 0 THEN 1 ELSE r - 1
        y == IF s.cur_y - visible < 0 THEN 0 ELSE s.cur_y - visible
    IN  IF s.cur_y = 0 THEN [s EXCEPT !.top_line = 0]
        ELSE clamp_x([s EXCEPT !.cur_y = y,
                               !.top_line = IF @ > y THEN y ELSE @])

page_down(s, r) ==
    LET visible == IF r - 1 <= 0 THEN 1 ELSE r - 1
        n == num_lines(s)
        y == IF s.cur_y + visible >= n - 1 THEN n - 1 ELSE s.cur_y + visible
        desired_top == IF y - visible + 1 < 0 THEN 0 ELSE y - visible + 1
    IN  IF s.cur_y >= n - 1
        THEN [s EXCEPT !.top_line = IF n > visible THEN n - visible ELSE 0]
        ELSE clamp_x([s EXCEPT !.cur_y = y, !.top_line = desired_top])

----------------------------------------------------------------------------
(* The command loop of main() *)

\* The (document, cursor, viewport) part of a state.
View(s) ==
    [ lines |-> s.lines, cur_x |-> s.cur_x, cur_y |-> s.cur_y,
      top_line |-> s.top_line ]

\* The state a handler starts from.
Begin ==
    [Live EXCEPT !.beeped = FALSE, !.evicted = 0, !.cleared = 0,
                 !.scan_from = -1]

\* Outcomes of a scan that starts outside its line buffer.
ScanOutcomes == -1..MaxGarbage

\* The cursor is within its line, so the handlers work on the line buffers
\* only.  A command issued with the cursor beyond the end of its line (an
\* out-of-bounds search can leave it there) works on memory outside the
\* buffers; the model follows the program up to that point.
InLine == cur_x <= strlen(lines[cur_y + 1])

Ready == steps < MaxSteps /\ InLine

\* One turn of the loop: the handler's result `t`, then draw_screen() on a
\* terminal of r rows and c columns.
Command(name, t, r, c) ==
    LET d == draw_screen(t, r)
    IN  /\ lines' = d.lines
        /\ pad' = d.pad
        /\ cur_x' = d.cur_x
        /\ cur_y' = d.cur_y
        /\ top_line' = d.top_line
        /\ undo_stack' = d.undo_stack
        /\ redo_stack' = d.redo_stack
        /\ search_query' = d.search_query
        /\ beeped' = d.beeped
        /\ captures' = d.captures
        /\ evicted' = d.evicted
        /\ cleared' = d.cleared
        /\ scan_from' = d.scan_from
        /\ painted_top' = d.painted_top
        /\ rows' = r
        /\ cols' = c
        /\ last' = name
        /\ steps' = steps + 1
        /\ live_hist' = IF recording THEN live_hist \cup {View(Live)}
                        ELSE live_hist
        /\ UNCHANGED << loaded, recording >>

KeyUp == Ready /\ Command("up", key_up(Begin), rows, cols)

KeyDown == Ready /\ Command("down", key_down(Begin), rows, cols)

KeyLeft == Ready /\ Command("left", key_left(Begin), rows, cols)

KeyRight == Ready /\ Command("right", key_right(Begin), rows, cols)

KeyPPage == Ready /\ Command("page_up", page_up(Begin, rows), rows, cols)

KeyNPage == Ready /\ Command("page_down", page_down(Begin, rows), rows, cols)

KeyBackspace == Ready /\ Command("backspace", backspace(Begin), rows, cols)

KeyEnter == Ready /\ Command("newline", newline(Begin), rows, cols)

KeyChar ==
    /\ Ready
    /\ \E c \in Chars : Command("insert", insert_char(Begin, c, cols), rows, cols)

CtrlU == Ready /\ Command("undo", do_undo(Begin), rows, cols)

CtrlZ == Ready /\ Command("redo", do_redo(Begin), rows, cols)

CtrlF ==
    /\ Ready
    /\ \E buf \in Queries, g \in ScanOutcomes :
          Command("find", prompt_search(Begin, buf, g), rows, cols)

CtrlN ==
    /\ Ready
    /\ \E g \in ScanOutcomes :
          Command("find_next", search_forward(Begin, g), rows, cols)

\* KEY_RESIZE: no handler, the redraw sees the new size.
KeyResize ==
    /\ Ready
    /\ \E r \in Rows, c \in Cols :
          /\ << r, c >> # << rows, cols >>
          /\ Command("resize", Begin, r, c)

\* Ctrl-S, Ctrl-H, Escape at a prompt, any other key: only the redraw.
OtherKey == Ready /\ Command("other", Begin, rows, cols)

InitWith(rec) ==
    \E doc \in InitDocs, r \in Rows, c \in Cols :
        LET s0 == [ lines |-> doc, pad |-> NoPad(Len(doc)),
                    cur_x |-> 0, cur_y |-> 0, top_line |-> 0,
                    undo_stack |-> << >>, redo_stack |-> << >>,
                    search_query |-> << >>, beeped |-> FALSE,
                    captures |-> 0, evicted |-> 0, cleared |-> 0,
                    scan_from |-> -1, painted_top |-> 0,
                    malloc_ok |-> TRUE ]
            d == draw_screen(s0, r)
        IN  /\ lines = d.lines
            /\ pad = d.pad
            /\ cur_x = d.cur_x
            /\ cur_y = d.cur_y
            /\ top_line = d.top_line
            /\ undo_stack = d.undo_stack
            /\ redo_stack = d.redo_stack
            /\ search_query = d.search_query
            /\ beeped = d.beeped
            /\ captures = d.captures
            /\ evicted = d.evicted
            /\ cleared = d.cleared
            /\ scan_from = d.scan_from
            /\ painted_top = d.painted_top
            /\ rows = r
            /\ cols = c
            /\ loaded = doc
            /\ last = "start"
            /\ steps = 0
            /\ recording = rec
            /\ live_hist = {}

Init == InitWith(FALSE)

Next ==
    \/ KeyUp
    \/ KeyDown
    \/ KeyLeft
    \/ KeyRight
    \/ KeyPPage
    \/ KeyNPage
    \/ KeyBackspace
    \/ KeyEnter
    \/ KeyChar
    \/ CtrlU
    \/ CtrlZ
    \/ CtrlF
    \/ CtrlN
    \/ KeyResize
    \/ OtherKey

Spec == Init /\ [][Next]_vars

\* Runs of edits, cursor moves and undo on a terminal of fixed size, with
\* the states that were live recorded in live_hist.
InitUndoAll == InitWith(TRUE)

NextUndoAll ==
    \/ KeyLeft
    \/ KeyRight
    \/ KeyBackspace
    \/ KeyEnter
    \/ KeyChar
    \/ CtrlU

SpecUndoAll == InitUndoAll /\ [][NextUndoAll]_vars

\* Runs in which the malloc() of push_undo() may fail: every edit command
\* comes a second time, with that allocation returning NULL while the
\* allocations of the handler itself succeed.
NoMem == [Begin EXCEPT !.malloc_ok = FALSE]

KeyBackspaceNoMem == Ready /\ Command("backspace", backspace(NoMem), rows, cols)

KeyEnterNoMem == Ready /\ Command("newline", newline(NoMem), rows, cols)

KeyCharNoMem ==
    /\ Ready
    /\ \E c \in Chars : Command("insert", insert_char(NoMem, c, cols), rows, cols)

NextOOM ==
    \/ KeyLeft
    \/ KeyRight
    \/ KeyBackspace
    \/ KeyEnter
    \/ KeyChar
    \/ CtrlU
    \/ CtrlZ
    \/ KeyBackspaceNoMem
    \/ KeyEnterNoMem
    \/ KeyCharNoMem

SpecOOM == Init /\ [][NextOOM]_vars

----------------------------------------------------------------------------
(* Properties *)

\* A whole turn of the loop as a function of the state: the handler on a
\* state whose per-command flags are cleared, then draw_screen().
Fresh(s) ==
    [s EXCEPT !.beeped = FALSE, !.evicted = 0, !.cleared = 0,
              !.scan_from = -1]

Turn_undo(s, r) == draw_screen(do_undo(Fresh(s)), r)

Turn_redo(s, r) == draw_screen(do_redo(Fresh(s)), r)

IsEdit(cmd) == cmd \in {"insert", "backspace", "newline"}

\* C1 as claimed: whenever undo runs on a non-empty undo stack, a redo
\* issued right after it gives back the lines, the cursor, the top line and
\* both stacks, snapshot for snapshot, as they were before the undo.
C1_RoundTripExact ==
    [][ (last' = "undo" /\ undo_stack # << >>) =>
          LET back == Turn_redo(Live', rows')
          IN  /\ View(back) = View(Live)
              /\ back.undo_stack = undo_stack
              /\ back.redo_stack = redo_stack ]_vars

\* C1 (amended): whenever undo runs on a non-empty undo stack, a redo issued
\* right after it gives back the lines, the cursor and the top line, the
\* redo stack, and the undo stack up to the top line recorded in its top
\* snapshot, which is the one the redraw after the undo settled on.
C1_RoundTrip ==
    [][ (last' = "undo" /\ undo_stack # << >>) =>
          LET back == Turn_redo(Live', rows')
              n == Len(undo_stack)
          IN  /\ View(back) = View(Live)
              /\ back.redo_stack = redo_stack
              /\ back.undo_stack =
                    [undo_stack EXCEPT ![n].top_line = top_line'] ]_vars

\* An undo has just changed the document and the redo that follows will
\* change it back.
C1_Witness ==
    /\ last = "undo"
    /\ ~beeped
    /\ redo_stack # << >>
    /\ undo_stack # << >>
    /\ Turn_redo(Live, rows).lines # lines

\* C2: after any single edit command X (insert, backspace, newline) the
\* pre-image of X is on top of the undo stack, and one undo gives back the
\* lines, the cursor and the top line as they were before X.
C2_EditThenUndo ==
    [][ IsEdit(last') =>
          /\ undo_stack' # << >>
          /\ undo_stack'[Len(undo_stack')] = View(Live)
          /\ View(Turn_undo(Live', rows')) = View(Live) ]_vars

\* An edit has just changed the document.
C2_Witness ==
    /\ IsEdit(last)
    /\ undo_stack # << >>
    /\ undo_stack[Len(undo_stack)].lines # lines
    /\ Turn_undo(Live, rows).lines # lines

\* C3: every edit command leaves the redo stack empty, and a redo issued
\* right after it beeps and changes neither the document, the cursor, the
\* top line nor the stacks.
C3_EditClearsRedo ==
    [][ IsEdit(last') =>
          /\ redo_stack' = << >>
          /\ LET after == Turn_redo(Live', rows')
             IN  /\ after.beeped
                 /\ View(after) = View(Live')
                 /\ after.undo_stack = undo_stack'
                 /\ after.redo_stack = << >> ]_vars

\* Edit B after an undo: the edit has just discarded a pending redo
\* snapshot, and the document differs from the undone one.
C3_Witness ==
    /\ IsEdit(last)
    /\ cleared > 0
    /\ redo_stack = << >>
    /\ undo_stack # << >>

LastN(seq, n) ==
    IF Len(seq) <= n THEN seq ELSE SubSeq(seq, Len(seq) - n + 1, Len(seq))

\* C5: neither stack ever holds more than UNDO_DEPTH snapshots, and an edit
\* command leaves on the undo stack the most recent UNDO_DEPTH of the old
\* snapshots followed by the pre-images it captured, oldest first (an
\* insert at the wrap column captures twice, any other edit once).
C5_BoundedFifo ==
    [][ /\ Len(undo_stack') <= UNDO_DEPTH
        /\ Len(redo_stack') <= UNDO_DEPTH
        /\ IsEdit(last') =>
             LET k == IF last' = "insert" /\ cur_x >= cols - 1 THEN 2 ELSE 1
                 pushed == [i \in 1..k |-> View(Live)]
             IN  undo_stack' = LastN(undo_stack \o pushed, UNDO_DEPTH) ]_vars

\* An edit has just run on a full undo stack and dropped its oldest
\* snapshot.
C5_Witness ==
    /\ IsEdit(last)
    /\ evicted > 0
    /\ Len(undo_stack) = UNDO_DEPTH
    /\ undo_stack[1] # undo_stack[2]

\* C6: undo on an empty undo stack and redo on an empty redo stack beep and
\* change nothing: lines, cursor, top line, both stacks, search query.
C6_EmptyHistoryNoOp ==
    [][ (\/ last' = "undo" /\ undo_stack = << >>
         \/ last' = "redo" /\ redo_stack = << >>) =>
          /\ beeped'
          /\ UNCHANGED << lines, pad, cur_x, cur_y, top_line, undo_stack,
                          redo_stack, search_query >> ]_vars

\* An undo has just found the undo stack empty while a redo is pending.
C6_Witness ==
    /\ last = "undo"
    /\ beeped
    /\ undo_stack = << >>
    /\ redo_stack # << >>

\* C7: the document always has at least one line and at most MAX_LINES
\* lines, and every line is shorter than MAX_COL.
C7_DocumentWithinBounds ==
    /\ Len(lines) >= 1
    /\ Len(lines) <= MAX_LINES
    /\ \A i \in 1..Len(lines) : Len(lines[i]) < MAX_COL

\* A newline has just been refused on a document of MAX_LINES lines.
C7_Witness ==
    /\ last = "newline"
    /\ Len(lines) = MAX_LINES
    /\ undo_stack # << >>

\* C8: after every command the cursor row is a row of the document and the
\* cursor column is at most the length of that row's line.
C8_CursorInDocument ==
    /\ cur_y >= 0
    /\ cur_y <= Len(lines) - 1
    /\ cur_x >= 0
    /\ cur_x <= Len(lines[cur_y + 1])

\* C9 as claimed: an insert command never changes the number of lines.
C9_InsertKeepsLineCount ==
    [][ last' = "insert" => Len(lines') = Len(lines) ]_vars

\* C9 (amended): an insert command with the cursor left of the last screen
\* column (cur_x < cols - 1) never changes the number of lines; at or
\* beyond that column it runs newline instead, which adds one line unless
\* the line count refuses it.
C9_InsertLineCount ==
    [][ last' = "insert" =>
          IF cur_x < cols - 1 THEN Len(lines') = Len(lines)
          ELSE IF Len(lines) + 1 >= MAX_LINES THEN lines' = lines
          ELSE Len(lines') = Len(lines) + 1 ]_vars

\* An insert has just put a character into a line.
C9_Witness ==
    /\ last = "insert"
    /\ undo_stack # << >>
    /\ LET before == undo_stack[Len(undo_stack)]
       IN  /\ Len(lines) = Len(before.lines)
           /\ Len(lines[cur_y + 1]) = Len(before.lines[cur_y + 1]) + 1

C11_NewlineRefusedOnlyAtMax ==
    [][ last' = "newline" =>
          IF Len(lines) >= MAX_LINES
          THEN lines' = lines
          ELSE Len(lines') = Len(lines) + 1 ]_vars

\* C12: a backspace at column 0 of a row > 0 whose merge is not refused
\* for length replaces line[row-1] by line[row-1] followed by line[row],
\* removes line[row], and puts the cursor on row-1 at the column equal to
\* the length line[row-1] had before.
C12_MergeWithPreviousLine ==
    [][ LET n == Len(lines)
            ln == lines[cur_y + 1]
        IN  (/\ last' = "backspace"
             /\ cur_x = 0
             /\ cur_y > 0
             /\ Len(lines[cur_y]) + Len(ln) + 1 < MAX_COL) =>
               /\ lines' = SubSeq(lines, 1, cur_y - 1)
                           \o << lines[cur_y] \o ln >>
                           \o SubSeq(lines, cur_y + 2, n)
               /\ cur_y' = cur_y - 1
               /\ cur_x' = Len(lines[cur_y]) ]_vars

\* A backspace has just merged a line into a non-empty line before it, so
\* the cursor stands behind what that line held.
C12_Witness ==
    /\ last = "backspace"
    /\ undo_stack # << >>
    /\ LET before == undo_stack[Len(undo_stack)]
       IN  /\ before.cur_x = 0
           /\ before.cur_y > 0
           /\ Len(lines) = Len(before.lines) - 1
           /\ cur_y = before.cur_y - 1
           /\ cur_x = Len(before.lines[before.cur_y])
           /\ cur_x > 0

\* The state before a command is one in which the edit command cmd is
\* refused: backspace at the start of the document, a merge refused for
\* the combined length, a newline refused for the line count, an insert
\* refused for the line length.
Refused(cmd) ==
    LET ln == lines[cur_y + 1]
    IN  \/ /\ cmd = "backspace"
           /\ cur_x = 0
           /\ \/ cur_y = 0
              \/ Len(lines[cur_y]) + Len(ln) + 1 >= MAX_COL
        \/ /\ cmd = "newline"
           /\ Len(lines) + 1 >= MAX_LINES
        \/ /\ cmd = "insert"
           /\ cur_x < cols - 1
           /\ Len(ln) + 2 >= MAX_COL

\* C13: an edit command that is refused leaves the lines, the cursor, the
\* top line, the undo stack and the redo stack exactly as they were.
C13_RefusedEditIsNoOp ==
    [][ Refused(last') =>
          UNCHANGED << lines, cur_x, cur_y, top_line, undo_stack,
                       redo_stack >> ]_vars

\* The offsets at which query occurs in line as a contiguous substring.
Occurrences(line, query) ==
    { i \in 0..(Len(line) - Len(query)) :
        SubSeq(line, i + 1, i + Len(query)) = query }

IsSearch(cmd) == cmd \in {"find", "find_next"}

\* C14: when a search with a non-empty query has no occurrence from the
\* search start position (cursor row, cursor column + 1) to the end of the
\* document but the query occurs in some row before the cursor row, the
\* cursor moves to the leftmost occurrence in the lowest such row and
\* nothing is reported as not found.
C14_SearchWrapsAround ==
    [][ LET q == search_query'
            n == Len(lines)
            before == { y \in 0..(cur_y - 1) :
                          Occurrences(lines[y + 1], q) # {} }
        IN  (/\ IsSearch(last')
             /\ q # << >>
             /\ \A i \in Occurrences(lines[cur_y + 1], q) : i < cur_x + 1
             /\ \A y \in (cur_y + 1)..(n - 1) :
                   Occurrences(lines[y + 1], q) = {}
             /\ before # {}) =>
               /\ ~beeped'
               /\ cur_y' = Min(before)
               /\ cur_x' = Min(Occurrences(lines[Min(before) + 1], q)) ]_vars

\* C15: a search with a non-empty query whose query occurs in some line
\* of the document, be it only on the cursor's row at or before the cursor
\* column, does not report not found and puts the cursor on an occurrence.
C15_FoundWheneverPresent ==
    [][ LET q == search_query'
        IN  (/\ IsSearch(last')
             /\ q # << >>
             /\ \E y \in 1..Len(lines) : Occurrences(lines[y], q) # {}) =>
               /\ ~beeped'
               /\ cur_x' \in Occurrences(lines[cur_y' + 1], q) ]_vars

\* C19: a search never scans a line from an offset greater than that
\* line's length: the offset it starts from on the cursor's row, cursor
\* column + 1, is at most the length of that row's line, also when the
\* cursor is at the end of the line.
C19_ScanStartsInsideLine ==
    [][ (IsSearch(last') /\ search_query' # << >>) =>
          /\ scan_from' = cur_x + 1
          /\ scan_from' <= Len(lines[cur_y + 1]) ]_vars

\* C16: after every redraw with at least one visible row the cursor row
\* lies in top_line .. top_line + visible - 1, and the redraw has changed
\* the top line it was entered with as little as that needs: to the cursor
\* row if the cursor was above it, to cursor row - visible + 1 if the
\* cursor was below the last visible row, and not at all otherwise.
C16_CursorRowVisible ==
    LET visible == rows - 1
    IN  visible >= 1 =>
          /\ top_line <= cur_y
          /\ cur_y <= top_line + visible - 1
          /\ top_line = IF cur_y < painted_top THEN cur_y
                        ELSE IF cur_y > painted_top + visible - 1
                        THEN cur_y - visible + 1
                        ELSE painted_top

\* A redraw has just scrolled down by less than the distance from the
\* old top line to the cursor: the cursor was below a viewport of two
\* rows, and is now on the second of them.
C16_Witness ==
    /\ rows - 1 = 2
    /\ top_line > painted_top
    /\ cur_y = top_line + 1

\* C18: the undo stack and the redo stack together never hold more than
\* UNDO_DEPTH snapshots, so an undo never finds the redo stack full, a
\* redo never finds the undo stack full, and neither of them drops an
\* oldest snapshot.
C18_StacksShareDepth ==
    /\ Len(undo_stack) + Len(redo_stack) <= UNDO_DEPTH
    /\ last \in {"undo", "redo"} => evicted = 0

\* An undo has just filled the redo stack to UNDO_DEPTH snapshots.
C18_Witness ==
    /\ last = "undo"
    /\ ~beeped
    /\ Len(redo_stack) = UNDO_DEPTH

\* C20: at the end of every redraw the rows on the screen were painted
\* from the same top line as the one the cursor is positioned by, so the
\* screen row of the cursor shows the line at the cursor row, also when
\* the redraw scrolled.
C20_CursorOnItsLine ==
    painted_top = top_line

\* C17: no edit command changes the document without its pre-image, the
\* lines and the cursor as they were before the command, being on top of
\* the undo stack afterwards, also when the allocation of the snapshot
\* fails: the edit then leaves the lines and the cursor as they are.
C17_NoChangeWithoutPreImage ==
    [][ (IsEdit(last') /\ lines' # lines) =>
          /\ undo_stack' # << >>
          /\ LET top == undo_stack'[Len(undo_stack')]
             IN  /\ top.lines = lines
                 /\ top.cur_x = cur_x
                 /\ top.cur_y = cur_y ]_vars

====
